---- MODULE Spec2Model ----
(***************************************************************************)
(* A model of the remdit client (krau/remdit-rs): src/src/client.rs and    *)
(* the run function of src/src/main.rs.                                    *)
(*                                                                         *)
(* Strings are sequences of one-character strings, so that the hand-rolled *)
(* JSON parser and serializer of client.rs are computed character by       *)
(* character, as the code computes them.                                   *)
(***************************************************************************)
EXTENDS Integers, Sequences, FiniteSets, TLC

\* ------------------------------------------------------------------------
\* Bounds of the model
\* ------------------------------------------------------------------------
\* longest save payload the peer sends
MaxLen == 2
\* most inbound frames the message loop reads in one run
MaxMsgs == 2

\* ------------------------------------------------------------------------
\* Characters
\* ------------------------------------------------------------------------
Q == "\""
B == "\\"
NL == "\n"
CR == "\r"
TAB == "\t"
SP == " "

\* the characters a save payload is made of: a quote, a backslash, the
\* letter n (so that backslash followed by n occurs) and a line feed
Alphabet == {Q, B, "n", NL}

RECURSIVE Strings(_)
Strings(n) ==
    IF n = 0 THEN {<<>>}
    ELSE {<<>>} \cup {<<c>> \o s : c \in Alphabet, s \in Strings(n - 1)}

\* every payload of at most MaxLen characters
Contents == Strings(MaxLen)

\* ------------------------------------------------------------------------
\* str methods of the Rust standard library, as client.rs uses them
\* ------------------------------------------------------------------------
\* pat occurs in s at (1-based) position i
MatchAt(s, pat, i) ==
    /\ i + Len(pat) - 1 <= Len(s)
    /\ \A k \in 1..Len(pat) : s[i + k - 1] = pat[k]

\* str::find: the 1-based position of the first occurrence, 0 for None
Find(s, pat) ==
    IF \E i \in 1..Len(s) : MatchAt(s, pat, i)
    THEN CHOOSE i \in 1..Len(s) :
            /\ MatchAt(s, pat, i)
            /\ \A j \in 1..(i - 1) : ~MatchAt(s, pat, j)
    ELSE 0

\* str::replace: every non-overlapping occurrence, scanning left to right
RECURSIVE ReplaceFrom(_, _, _, _)
ReplaceFrom(s, from, to, i) ==
    IF i > Len(s) THEN <<>>
    ELSE IF MatchAt(s, from, i)
         THEN to \o ReplaceFrom(s, from, to, i + Len(from))
         ELSE <<s[i]>> \o ReplaceFrom(s, from, to, i + 1)

Replace(s, from, to) == ReplaceFrom(s, from, to, 1)

\* str::trim_start: drop the leading white space
RECURSIVE TrimStart(_)
TrimStart(s) ==
    IF s # <<>> /\ Head(s) \in {SP, NL, CR, TAB} THEN TrimStart(Tail(s)) ELSE s

\* Option<String>
None == [some |-> FALSE, val |-> <<>>]
Some(v) == [some |-> TRUE, val |-> v]

\* ------------------------------------------------------------------------
\* client.rs: the hand-rolled JSON functions
\* ------------------------------------------------------------------------
unescape_json_string(s) ==
    LET s1 == Replace(s, <<B, Q>>, <<Q>>)
        s2 == Replace(s1, <<B, B>>, <<B>>)
        s3 == Replace(s2, <<B, "n">>, <<NL>>)
        s4 == Replace(s3, <<B, "r">>, <<CR>>)
    IN  Replace(s4, <<B, "t">>, <<TAB>>)

escape_json_string(s) ==
    LET s1 == Replace(s, <<B>>, <<B, B>>)
        s2 == Replace(s1, <<Q>>, <<B, Q>>)
        s3 == Replace(s2, <<NL>>, <<B, "n">>)
        s4 == Replace(s3, <<CR>>, <<B, "r">>)
    IN  Replace(s4, <<TAB>>, <<B, "t">>)

\* start_pos is the 1-based position of the first character of the slice
extract_json_value_from_position(json, start_pos) ==
    LET chars == TrimStart(SubSeq(json, start_pos, Len(json)))
        \* chars[end_pos] == '"' && (end_pos == 1 || chars[end_pos - 1] != '\\'),
        \* with end_pos counted from 0 in the code and from 1 here
        Closes(k) == chars[k] = Q /\ (k = 2 \/ chars[k - 1] # B)
    IN  IF chars # <<>> /\ chars[1] = Q /\ \E k \in 2..Len(chars) : Closes(k)
        THEN LET end_pos == CHOOSE k \in 2..Len(chars) :
                                Closes(k) /\ \A j \in 2..(k - 1) : ~Closes(j)
             IN  Some(unescape_json_string(SubSeq(chars, 2, end_pos - 1)))
        ELSE None

\* the value that follows the first occurrence of key and the next colon
FieldAfter(json, key) ==
    LET start == Find(json, key)
        colon_pos == IF start = 0 THEN 0
                     ELSE Find(SubSeq(json, start, Len(json)), <<":">>)
    IN  IF start = 0 \/ colon_pos = 0 THEN None
        ELSE extract_json_value_from_position(json, start + colon_pos)

\* Result<WebSocketMessage>: the code has no path that returns Err
parse_websocket_message(text) ==
    LET json == Replace(Replace(text, <<NL>>, <<SP>>), <<CR>>, <<SP>>)
        t == FieldAfter(json, <<Q,"t","y","p","e",Q>>)
        c == FieldAfter(json, <<Q,"c","o","n","t","e","n","t",Q>>)
    IN  [ok |-> TRUE,
         msg_type |-> IF t.some THEN t.val ELSE <<>>,
         content |-> c]

serialize_result_message(msg) ==
    LET reason == IF msg.reason.some
                  THEN <<",",Q,"r","e","a","s","o","n",Q,":",Q>>
                       \o escape_json_string(msg.reason.val) \o <<Q>>
                  ELSE <<>>
    IN  <<"{",Q,"t","y","p","e",Q,":",Q>> \o escape_json_string(msg.msg_type)
        \o <<Q,",",Q,"s","u","c","c","e","s","s",Q,":">>
        \o (IF msg.success THEN <<"t","r","u","e">> ELSE <<"f","a","l","s","e">>)
        \o reason \o <<"}">>

parse_session_response(text) ==
    LET json == Replace(Replace(text, <<NL>>, <<SP>>), <<CR>>, <<SP>>)
        sid == FieldAfter(json, <<Q,"s","e","s","s","i","o","n","i","d",Q>>)
        url == FieldAfter(json, <<Q,"e","d","i","t","u","r","l",Q>>)
        sessionid == IF sid.some THEN sid.val ELSE <<>>
        editurl == IF url.some THEN url.val ELSE <<>>
    IN  [ok |-> sessionid # <<>> /\ editurl # <<>>,
         sessionid |-> sessionid,
         editurl |-> editurl]

\* ------------------------------------------------------------------------
\* The peer: what the server answers and what it sends on the connection
\* ------------------------------------------------------------------------
\* the JSON encoding of a string, as a JSON library of the peer writes it
JsonEncodeChar(c) ==
    IF c = Q THEN <<B, Q>>
    ELSE IF c = B THEN <<B, B>>
    ELSE IF c = NL THEN <<B, "n">>
    ELSE IF c = CR THEN <<B, "r">>
    ELSE IF c = TAB THEN <<B, "t">>
    ELSE <<c>>

RECURSIVE JsonEncode(_)
JsonEncode(s) ==
    IF s = <<>> THEN <<>> ELSE JsonEncodeChar(Head(s)) \o JsonEncode(Tail(s))

\* {"type":"save","content":<JSON encoding of C>}
SaveFrame(C) ==
    [text |-> <<"{",Q,"t","y","p","e",Q,":",Q,"s","a","v","e",Q,",",
                Q,"c","o","n","t","e","n","t",Q,":",Q>> \o JsonEncode(C) \o <<Q,"}">>,
     kind |-> "save",
     content |-> Some(C)]

\* {"type":"save"}
SaveNoContent ==
    [text |-> <<"{",Q,"t","y","p","e",Q,":",Q,"s","a","v","e",Q,"}">>,
     kind |-> "save",
     content |-> None]

\* {"type":"save","content":5}: a save whose content is not a string
SaveNumberContent ==
    [text |-> <<"{",Q,"t","y","p","e",Q,":",Q,"s","a","v","e",Q,",",
                Q,"c","o","n","t","e","n","t",Q,":","5","}">>,
     kind |-> "save",
     content |-> None]

\* {"type":"save","note":"content","x":"a"}: a save without a content
\* field, one of whose other fields has the string content as its value
SaveShadowContent ==
    [text |-> <<"{",Q,"t","y","p","e",Q,":",Q,"s","a","v","e",Q,",",
                Q,"n","o","t","e",Q,":",Q,"c","o","n","t","e","n","t",Q,",",
                Q,"x",Q,":",Q,"a",Q,"}">>,
     kind |-> "save",
     content |-> None]

\* {"type":"ping"}
OtherFrame ==
    [text |-> <<"{",Q,"t","y","p","e",Q,":",Q,"p","i","n","g",Q,"}">>,
     kind |-> "other",
     content |-> None]

\* {"type":"ping","content":"a"}
OtherWithContent ==
    [text |-> <<"{",Q,"t","y","p","e",Q,":",Q,"p","i","n","g",Q,",",
                Q,"c","o","n","t","e","n","t",Q,":",Q,"a",Q,"}">>,
     kind |-> "other",
     content |-> Some(<<"a">>)]

\* {"kind":"type","id":"save","content":"a","type":"noop"}: a message of
\* type noop, one of whose other fields has the string type as its value
ShadowFrame ==
    [text |-> <<"{",Q,"k","i","n","d",Q,":",Q,"t","y","p","e",Q,",",
                Q,"i","d",Q,":",Q,"s","a","v","e",Q,",",
                Q,"c","o","n","t","e","n","t",Q,":",Q,"a",Q,",",
                Q,"t","y","p","e",Q,":",Q,"n","o","o","p",Q,"}">>,
     kind |-> "other",
     content |-> Some(<<"a">>)]

\* oops: not JSON
NotJson ==
    [text |-> <<"o","o","p","s">>,
     kind |-> "malformed",
     content |-> None]

\* {"content":"a"}: JSON without a type field
NoTypeFrame ==
    [text |-> <<"{",Q,"c","o","n","t","e","n","t",Q,":",Q,"a",Q,"}">>,
     kind |-> "malformed",
     content |-> Some(<<"a">>)]

\* the text frames the peer may send
TextFrames ==
    {SaveFrame(C) : C \in Contents}
        \cup {SaveNoContent, SaveNumberContent, SaveShadowContent,
              OtherFrame, OtherWithContent, ShadowFrame, NotJson, NoTypeFrame}

\* parse_websocket_message of every text the peer may send
ParseTable == [t \in {f.text : f \in TextFrames} |-> parse_websocket_message(t)]

\* {"sessionid":"s","editurl":"u"}
FullBody ==
    <<"{",Q,"s","e","s","s","i","o","n","i","d",Q,":",Q,"s",Q,",",
      Q,"e","d","i","t","u","r","l",Q,":",Q,"u",Q,"}">>

\* {"editurl":"u","note":"sessionid","x":"s"}: a body without a sessionid
\* field, one of whose other fields has the string sessionid as its value
ShadowBody ==
    <<"{",Q,"e","d","i","t","u","r","l",Q,":",Q,"u",Q,",",
      Q,"n","o","t","e",Q,":",Q,"s","e","s","s","i","o","n","i","d",Q,",",
      Q,"x",Q,":",Q,"s",Q,"}">>

\* the bodies of the negotiation response
SessionBodies ==
    { FullBody, ShadowBody,
      <<"{",Q,"s","e","s","s","i","o","n","i","d",Q,":",Q,"s",Q,"}">>,
      <<"{",Q,"e","d","i","t","u","r","l",Q,":",Q,"u",Q,"}">>,
      <<"{",Q,"s","e","s","s","i","o","n","i","d",Q,":",Q,Q,",",
        Q,"e","d","i","t","u","r","l",Q,":",Q,"u",Q,"}">>,
      <<"<","h","t","m","l",">">> }

\* what minreq::post(..).send() returns: a network failure, or a response
\* with a status code, a content-type and a body
Responses ==
    [sent : BOOLEAN, status_code : {200, 204, 401, 404, 500},
     json_type : BOOLEAN, body : SessionBodies]

\* ------------------------------------------------------------------------
\* Program constants and error texts
\* ------------------------------------------------------------------------
\* the close code of run for a normal or interrupted end
NormalClosure == 1000
\* the close code of run after an error of the message loop
GoingAway == 1001

\* errors are modelled by their display text
UnauthorizedError == "Unauthorized: check your API key"
StatusError == "Request failed with status"
RequestError == "Request failed"
ContentTypeError == "Unexpected content-type"
SessionFormatError == "Invalid session response format"
NoSessionError == "No session ID available"
ConnectError == "websocket connect failed"
TransportError == "websocket read failed"
ParseError == "websocket message parse failed"
CloseError == "websocket close send failed"
NoServersError == "No servers configured"
NoValidServersError == "No valid servers found"
ReadError == "file read failed"

Ok == [state |-> "ok", err |-> ""]
Err(e) == [state |-> "err", err |-> e]
Running == [state |-> "running", err |-> ""]

\* the content of the target file when the run starts
InitialFile == <<"o">>

\* ------------------------------------------------------------------------
\* State
\* ------------------------------------------------------------------------
VARIABLES
    pc,          \* where run is: select_server, create_session, connect,
                 \* select, close, done
    session_id,  \* Client::session_id, an Option<String>
    edit_url,    \* Client::edit_url, an Option<String>
    ws_stream,   \* Client::ws_stream: "None" or "Some"
    stdout,      \* the edit URLs run has printed
    hpc,         \* where handle_messages is: idle, next, write, send,
                 \* returned, dropped
    writing,     \* the tokio::fs::write in flight: <<>> or <<content>>
    pending,     \* the ResultMessage being sent: <<>> or <<msg>>
    file,        \* the content of the target file
    outbox,      \* the frames the client has passed to ws_stream.send
    signalled,   \* the signal task has put () on the channel
    branch,      \* the arm of tokio::select! taken: none, ok, err, interrupt
    loop_err,    \* the error handle_messages returned, "" if none
    result,      \* what run returns
    nrecv,       \* inbound frames read so far
    last,        \* the last text frame read: what the peer meant by it
    nsaves,      \* save frames with a content payload read so far
    writes,      \* the outcome of every file write, in order
    peer_closed, \* a close frame of the peer has been read
    servers,     \* Config::servers
    seed,        \* the nanoseconds SimpleRng::new reads from the clock
    server,      \* Client::server, the server selected
    http,        \* the answer to the POST in flight: <<>> or <<response>>
    nposts,      \* POST requests sent so far
    nconnects,   \* connect_async calls made so far
    ws_url       \* the URL of the last connect_async call, an Option

vars == <<pc, session_id, edit_url, ws_stream, stdout, hpc, writing, pending,
          file, outbox, signalled, branch, loop_err, result, nrecv, last,
          nsaves, writes, peer_closed, servers, seed, server, http, nposts,
          nconnects, ws_url>>

\* the variables of server selection and negotiation
startup == <<servers, seed, server, http, nposts, nconnects, ws_url>>

\* ------------------------------------------------------------------------
\* main.rs: SimpleRng, on 64-bit words held as 8 bytes, lowest byte first
\* ------------------------------------------------------------------------
\* 1103515245 and 12345 as 64-bit words
Multiplier == <<109, 78, 198, 65, 0, 0, 0, 0>>
Increment == <<57, 48, 0, 0, 0, 0, 0, 0>>

\* the sum of the byte products of a and Multiplier that fall on byte k
RECURSIVE ColumnFrom(_, _, _)
ColumnFrom(a, k, i) ==
    IF i > k THEN 0
    ELSE a[i] * Multiplier[k - i + 1] + ColumnFrom(a, k, i + 1)

\* bytes k..8 of a.wrapping_mul(1103515245).wrapping_add(12345)
RECURSIVE WrapFrom(_, _, _)
WrapFrom(a, k, carry) ==
    IF k > 8 THEN <<>>
    ELSE LET t == ColumnFrom(a, k, 1) + Increment[k] + carry
         IN  <<t % 256>> \o WrapFrom(a, k + 1, t \div 256)

\* SimpleRng::next_u64: the new state
next_u64(state) == WrapFrom(state, 1, 0)

\* word % max, from the highest byte down
RECURSIVE ModFrom(_, _, _, _)
ModFrom(word, max, k, r) ==
    IF k = 0 THEN r ELSE ModFrom(word, max, k - 1, (r * 256 + word[k]) % max)

\* SimpleRng::usize on a generator in state state
usize(state, max) == ModFrom(next_u64(state), max, 8, 0)

\* Server::is_valid
is_valid(sv) == sv.addr # <<>>

\* ValidServers with the filter left out
AllServers(list) == list

\* config.servers.into_iter().filter(|server| server.is_valid()).collect()
ValidServers(list) == SelectSeq(list, is_valid)

\* ------------------------------------------------------------------------
\* Configurations and clock readings
\* ------------------------------------------------------------------------
\* most entries of the configured server list
MaxServers == 2

Addresses == {<<>>, <<"a">>, <<"b">>}
ServerEntries == [addr : Addresses, key : {None}]
NoServer == [addr |-> <<>>, key |-> None]

RECURSIVE ServerLists(_)
ServerLists(n) ==
    IF n = 0 THEN {<<>>}
    ELSE {<<>>} \cup {<<e>> \o l : e \in ServerEntries, l \in ServerLists(n - 1)}

\* the clock readings: small and large ones, and the fallback 12345
Seeds ==
    {<<b1, b2, 0, 0, 0, 0, 0, b8>> : b1 \in {0, 1, 255}, b2 \in {0, 200},
                                    b8 \in {0, 23, 255}}
        \cup {<<57, 48, 0, 0, 0, 0, 0, 0>>}

\* the configuration of the runs of Spec: an entry without an address and
\* one with an address
DefaultServers == <<[addr |-> <<>>, key |-> None], [addr |-> <<"a">>, key |-> None]>>
DefaultSeed == <<57, 48, 0, 0, 0, 0, 0, 0>>

\* the state when run is entered, but for the configuration and the clock
InitRun ==
    /\ pc = "select_server"
    /\ server = NoServer
    /\ http = <<>>
    /\ nposts = 0
    /\ nconnects = 0
    /\ ws_url = None
    /\ session_id = None
    /\ edit_url = None
    /\ ws_stream = "None"
    /\ stdout = <<>>
    /\ hpc = "idle"
    /\ writing = <<>>
    /\ pending = <<>>
    /\ file = InitialFile
    /\ outbox = <<>>
    /\ signalled = FALSE
    /\ branch = "none"
    /\ loop_err = ""
    /\ result = Running
    /\ nrecv = 0
    /\ last = [kind |-> "none", content |-> None, wrote |-> "none"]
    /\ nsaves = 0
    /\ writes = <<>>
    /\ peer_closed = FALSE

\* run is entered with the default configuration
Init ==
    /\ servers = DefaultServers
    /\ seed = DefaultSeed
    /\ InitRun

\* run is entered with any configuration and any clock reading
InitSelect ==
    /\ servers \in ServerLists(MaxServers)
    /\ seed \in Seeds
    /\ InitRun

\* a text frame and a close frame, as recorded in outbox
TextOut(text, ok) ==
    [kind |-> "text", text |-> text, code |-> 0, reason |-> "", ok |-> ok]
CloseOut(code, reason, ok) ==
    [kind |-> "close", text |-> <<>>, code |-> code, reason |-> reason, ok |-> ok]

\* ------------------------------------------------------------------------
\* run, up to the race
\* ------------------------------------------------------------------------
\* ------------------------------------------------------------------------
\* run, up to the race
\* ------------------------------------------------------------------------
\* the start of run: the valid servers are filtered, one is drawn and
\* Client::new is called
SelectServer ==
    /\ pc = "select_server"
    /\ IF servers = <<>>
       THEN /\ result' = Err(NoServersError)
            /\ pc' = "done"
            /\ server' = server
       ELSE LET valid_servers == ValidServers(servers)
            IN  IF valid_servers = <<>>
                THEN /\ result' = Err(NoValidServersError)
                     /\ pc' = "done"
                     /\ server' = server
                ELSE /\ server' = valid_servers[usize(seed, Len(valid_servers)) + 1]
                     /\ pc' = "create_session"
                     /\ result' = result
    /\ UNCHANGED <<session_id, edit_url, ws_stream, stdout, hpc, writing,
                   pending, file, outbox, signalled, branch, loop_err, nrecv,
                   last, nsaves, writes, peer_closed, servers, seed, http,
                   nposts, nconnects, ws_url>>

\* Client::create_session up to minreq::post(..).send(): the file is read
\* and the request is sent; the server's answer is then in flight
PostSession ==
    /\ pc = "create_session"
    /\ http = <<>>
    /\ \E readable \in BOOLEAN :
        IF readable
        THEN /\ \E resp \in Responses : http' = <<resp>>
             /\ nposts' = nposts + 1
             /\ UNCHANGED <<pc, result>>
        ELSE /\ result' = Err(ReadError)
             /\ pc' = "done"
             /\ UNCHANGED <<http, nposts>>
    /\ UNCHANGED <<session_id, edit_url, ws_stream, stdout, hpc, writing,
                   pending, file, outbox, signalled, branch, loop_err, nrecv,
                   last, nsaves, writes, peer_closed, servers, seed, server,
                   nconnects, ws_url>>

\* what Client::create_session returns for a response
SessionOutcome(resp) ==
    IF ~resp.sent THEN Err(RequestError)
    ELSE IF resp.status_code = 401 THEN Err(UnauthorizedError)
    ELSE IF resp.status_code < 200 \/ resp.status_code >= 300 THEN Err(StatusError)
    ELSE IF ~resp.json_type THEN Err(ContentTypeError)
    ELSE IF ~parse_session_response(resp.body).ok THEN Err(SessionFormatError)
    ELSE Ok

\* CreateSession with the request sent again after an error
CreateSessionRetries ==
    /\ pc = "create_session"
    /\ http # <<>>
    /\ LET resp == http[1]
           r == SessionOutcome(resp)
           session_resp == parse_session_response(resp.body)
       IN  IF r = Ok
           THEN /\ session_id' = Some(session_resp.sessionid)
                /\ edit_url' = Some(session_resp.editurl)
                /\ pc' = "connect"
           ELSE UNCHANGED <<session_id, edit_url, pc>>
    /\ http' = <<>>
    /\ UNCHANGED <<ws_stream, stdout, hpc, writing, pending, file, outbox,
                   signalled, branch, loop_err, nrecv, last, nsaves, writes,
                   peer_closed, servers, seed, server, nposts, nconnects, ws_url,
                   result>>

\* Client::create_session from the answer on, and the ? of run
CreateSession ==
    /\ pc = "create_session"
    /\ http # <<>>
    /\ LET resp == http[1]
           r == SessionOutcome(resp)
           session_resp == parse_session_response(resp.body)
       IN  IF r = Ok
           THEN /\ session_id' = Some(session_resp.sessionid)
                /\ edit_url' = Some(session_resp.editurl)
                /\ pc' = "connect"
                /\ result' = result
           ELSE /\ result' = r
                /\ pc' = "done"
                /\ UNCHANGED <<session_id, edit_url>>
    /\ http' = <<>>
    /\ UNCHANGED <<ws_stream, stdout, hpc, writing, pending, file, outbox,
                   signalled, branch, loop_err, nrecv, last, nsaves, writes,
                   peer_closed, servers, seed, server, nposts, nconnects, ws_url>>

\* the URL Client::connect builds for an address without a scheme (the
\* addresses of ServerEntries have none): wss://<addr>/api/session/<id>
WsUrl(addr, id) ==
    <<"w","s","s",":","/","/">> \o addr
        \o <<"/","a","p","i","/","s","e","s","s","i","o","n","/">> \o id

\* Client::get_edit_url
get_edit_url == IF edit_url.some THEN edit_url.val ELSE <<>>

\* Connect with the println left out
ConnectNoPrint ==
    /\ pc = "connect"
    /\ \E connected \in BOOLEAN :
        IF ~session_id.some
        THEN /\ result' = Err(NoSessionError)
             /\ pc' = "done"
             /\ UNCHANGED <<ws_stream, hpc, nconnects, ws_url>>
        ELSE IF ~connected
        THEN /\ result' = Err(ConnectError)
             /\ pc' = "done"
             /\ nconnects' = nconnects + 1
             /\ ws_url' = Some(WsUrl(server.addr, session_id.val))
             /\ UNCHANGED <<ws_stream, hpc>>
        ELSE /\ ws_stream' = "Some"
             /\ nconnects' = nconnects + 1
             /\ ws_url' = Some(WsUrl(server.addr, session_id.val))
             /\ hpc' = "next"
             /\ pc' = "select"
             /\ result' = result
    /\ UNCHANGED <<session_id, edit_url, writing, pending, file, outbox,
                   signalled, branch, loop_err, nrecv, last, nsaves, writes,
                   peer_closed, servers, seed, server, http, nposts, stdout>>

\* Connect with the edit URL printed before client.connect is awaited
ConnectPrintsFirst ==
    /\ pc = "connect"
    /\ \E connected \in BOOLEAN :
        IF ~session_id.some
        THEN /\ result' = Err(NoSessionError)
             /\ pc' = "done"
             /\ UNCHANGED <<ws_stream, hpc, nconnects, ws_url>>
        ELSE IF ~connected
        THEN /\ result' = Err(ConnectError)
             /\ pc' = "done"
             /\ nconnects' = nconnects + 1
             /\ ws_url' = Some(WsUrl(server.addr, session_id.val))
             /\ UNCHANGED <<ws_stream, hpc>>
        ELSE /\ ws_stream' = "Some"
             /\ nconnects' = nconnects + 1
             /\ ws_url' = Some(WsUrl(server.addr, session_id.val))
             /\ hpc' = "next"
             /\ pc' = "select"
             /\ result' = result
    /\ stdout' = Append(stdout, get_edit_url)
    /\ UNCHANGED <<session_id, edit_url, writing, pending, file, outbox,
                   signalled, branch, loop_err, nrecv, last, nsaves, writes,
                   peer_closed, servers, seed, server, http, nposts>>

\* Connect with a failed connect_async tried again
ConnectRetries ==
    /\ pc = "connect"
    /\ \E connected \in BOOLEAN :
        IF ~session_id.some
        THEN /\ result' = Err(NoSessionError)
             /\ pc' = "done"
             /\ UNCHANGED <<ws_stream, stdout, hpc, nconnects, ws_url>>
        ELSE IF ~connected
        THEN /\ pc' = "connect"
             /\ nconnects' = nconnects + 1
             /\ ws_url' = Some(WsUrl(server.addr, session_id.val))
             /\ UNCHANGED <<ws_stream, stdout, hpc, result>>
        ELSE /\ ws_stream' = "Some"
             /\ nconnects' = nconnects + 1
             /\ ws_url' = Some(WsUrl(server.addr, session_id.val))
             /\ stdout' = Append(stdout, get_edit_url)
             /\ hpc' = "next"
             /\ pc' = "select"
             /\ result' = result
    /\ UNCHANGED <<session_id, edit_url, writing, pending, file, outbox,
                   signalled, branch, loop_err, nrecv, last, nsaves, writes,
                   peer_closed, servers, seed, server, http, nposts>>

\* client.connect().await?, then the edit URL is printed, the signal task
\* is spawned and tokio::select! polls handle_messages for the first time
Connect ==
    /\ pc = "connect"
    /\ \E connected \in BOOLEAN :
        IF ~session_id.some
        THEN /\ result' = Err(NoSessionError)
             /\ pc' = "done"
             /\ UNCHANGED <<ws_stream, stdout, hpc, nconnects, ws_url>>
        ELSE IF ~connected
        THEN /\ result' = Err(ConnectError)
             /\ pc' = "done"
             /\ nconnects' = nconnects + 1
             /\ ws_url' = Some(WsUrl(server.addr, session_id.val))
             /\ UNCHANGED <<ws_stream, stdout, hpc>>
        ELSE /\ ws_stream' = "Some"
             /\ nconnects' = nconnects + 1
             /\ ws_url' = Some(WsUrl(server.addr, session_id.val))
             /\ stdout' = Append(stdout, get_edit_url)
             /\ hpc' = "next"
             /\ pc' = "select"
             /\ result' = result
    /\ UNCHANGED <<session_id, edit_url, writing, pending, file, outbox,
                   signalled, branch, loop_err, nrecv, last, nsaves, writes,
                   peer_closed, servers, seed, server, http, nposts>>

\* the signal task: ctrl_c() completes and () is sent on the channel
CtrlC ==
    /\ pc \in {"select", "close"}
    /\ ~signalled
    /\ signalled' = TRUE
    /\ UNCHANGED <<pc, session_id, edit_url, ws_stream, stdout, hpc, writing,
                   pending, file, outbox, branch, loop_err, result, nrecv,
                   last, nsaves, writes, peer_closed, startup>>

\* ------------------------------------------------------------------------
\* Client::handle_messages, one action per await
\* ------------------------------------------------------------------------
SaveType == <<"s","a","v","e">>

\* handle_messages returns r: the first arm of tokio::select! is taken,
\* and run goes on to client.close
LoopReturns(r) ==
    /\ hpc' = "returned"
    /\ branch' = r.state
    /\ loop_err' = r.err
    /\ pc' = "close"

\* ws_stream.next() yields Message::Text(f.text)
RecvText ==
    /\ pc = "select"
    /\ hpc = "next"
    /\ nrecv < MaxMsgs
    /\ \E f \in TextFrames :
        LET ws_msg == ParseTable[f.text]
        IN  /\ nrecv' = nrecv + 1
            /\ last' = [kind |-> f.kind, content |-> f.content, wrote |-> "none"]
            /\ nsaves' = IF f.kind = "save" /\ f.content.some
                         THEN nsaves + 1 ELSE nsaves
            /\ IF ~ws_msg.ok
               THEN /\ LoopReturns(Err(ParseError))
                    /\ writing' = writing
               ELSE IF ws_msg.msg_type = SaveType /\ ws_msg.content.some
               THEN /\ writing' = <<ws_msg.content.val>>
                    /\ hpc' = "write"
                    /\ UNCHANGED <<branch, loop_err, pc>>
               ELSE UNCHANGED <<writing, hpc, branch, loop_err, pc>>
    /\ UNCHANGED <<session_id, edit_url, ws_stream, stdout, pending, file,
                   outbox, signalled, result, writes, peer_closed, startup>>

\* ws_stream.next() yields Message::Close
RecvClose ==
    /\ pc = "select"
    /\ hpc = "next"
    /\ LoopReturns(Ok)
    /\ nrecv' = nrecv + 1
    /\ peer_closed' = TRUE
    /\ UNCHANGED <<session_id, edit_url, ws_stream, stdout, writing, pending,
                   file, outbox, signalled, result, last, nsaves, writes,
                   startup>>

\* ws_stream.next() yields a ping, a pong or a binary message
RecvControl ==
    /\ pc = "select"
    /\ hpc = "next"
    /\ nrecv < MaxMsgs
    /\ nrecv' = nrecv + 1
    /\ UNCHANGED <<pc, session_id, edit_url, ws_stream, stdout, hpc, writing,
                   pending, file, outbox, signalled, branch, loop_err, result,
                   last, nsaves, writes, peer_closed, startup>>

\* ws_stream.next() yields an error
RecvError ==
    /\ pc = "select"
    /\ hpc = "next"
    /\ LoopReturns(Err(TransportError))
    /\ nrecv' = nrecv + 1
    /\ UNCHANGED <<session_id, edit_url, ws_stream, stdout, writing, pending,
                   file, outbox, signalled, result, last, nsaves, writes,
                   peer_closed, startup>>

\* ws_stream.next() yields None: the stream has ended
RecvEnd ==
    /\ pc = "select"
    /\ hpc = "next"
    /\ LoopReturns(Ok)
    /\ UNCHANGED <<session_id, edit_url, ws_stream, stdout, writing, pending,
                   file, outbox, signalled, result, nrecv, last, nsaves, writes,
                   peer_closed, startup>>

\* the ways tokio::fs::write(path, content) may end: written; failed before
\* the file was opened; failed after it was truncated and partly written
WriteOutcomes(old, content) ==
    {[ok |-> TRUE, after |-> content], [ok |-> FALSE, after |-> old]}
        \cup {[ok |-> FALSE, after |-> SubSeq(content, 1, k)] :
                k \in 0..(Len(content) - 1)}

\* ResultFor with the failure branch reporting success as well
ResultForAlwaysSuccess(written) ==
    [msg_type |-> <<"s","a","v","e","_","r","e","s","u","l","t">>,
     success |-> TRUE,
     reason |-> Some(<<"F","i","l","e"," ","s","a","v","e","d"," ",
                       "s","u","c","c","e","s","s","f","u","l","l","y">>)]

\* the ResultMessage handle_messages builds after the write
ResultFor(written) ==
    [msg_type |-> <<"s","a","v","e","_","r","e","s","u","l","t">>,
     success |-> written,
     reason |-> IF written
                THEN Some(<<"F","i","l","e"," ","s","a","v","e","d"," ",
                            "s","u","c","c","e","s","s","f","u","l","l","y">>)
                ELSE Some(<<"F","a","i","l","e","d"," ","t","o"," ",
                            "s","a","v","e"," ","f","i","l","e">>)]

\* WriteDone with the error of the write returned by handle_messages
WriteDoneFailureEndsLoop ==
    /\ writing # <<>>
    /\ \E w \in WriteOutcomes(file, writing[1]) :
        /\ file' = w.after
        /\ writes' = Append(writes, w.ok)
        /\ last' = [last EXCEPT !.wrote = IF w.ok THEN "ok" ELSE "failed"]
        /\ IF hpc = "write" /\ w.ok
           THEN /\ pending' = <<ResultFor(w.ok)>>
                /\ hpc' = "send"
                /\ UNCHANGED <<pc, branch, loop_err>>
           ELSE IF hpc = "write"
           THEN /\ LoopReturns(Err(TransportError))
                /\ pending' = pending
           ELSE UNCHANGED <<pending, hpc, pc, branch, loop_err>>
    /\ writing' = <<>>
    /\ UNCHANGED <<session_id, edit_url, ws_stream, stdout, outbox,
                   signalled, result, nrecv, nsaves, peer_closed, startup>>

\* the file write in flight ends. It runs on a blocking thread, so it also
\* ends when the future that awaited it has been dropped.
WriteDone ==
    /\ writing # <<>>
    /\ \E w \in WriteOutcomes(file, writing[1]) :
        /\ file' = w.after
        /\ writes' = Append(writes, w.ok)
        /\ last' = [last EXCEPT !.wrote = IF w.ok THEN "ok" ELSE "failed"]
        /\ IF hpc = "write"
           THEN /\ pending' = <<ResultFor(w.ok)>>
                /\ hpc' = "send"
           ELSE UNCHANGED <<pending, hpc>>
    /\ writing' = <<>>
    /\ UNCHANGED <<pc, session_id, edit_url, ws_stream, stdout, outbox,
                   signalled, branch, loop_err, result, nrecv, nsaves,
                   peer_closed, startup>>

\* SendDone with the error of the send returned by handle_messages
SendDoneFailureEndsLoop ==
    /\ pc = "select"
    /\ hpc = "send"
    /\ \E sent \in BOOLEAN :
        /\ outbox' = Append(outbox, TextOut(serialize_result_message(pending[1]), sent))
        /\ IF sent
           THEN /\ hpc' = "next"
                /\ UNCHANGED <<pc, branch, loop_err>>
           ELSE LoopReturns(Err(TransportError))
    /\ pending' = <<>>
    /\ UNCHANGED <<session_id, edit_url, ws_stream, stdout, writing, file,
                   signalled, result, nrecv, last, nsaves, writes,
                   peer_closed, startup>>

\* ws_stream.send(Message::Text(json)) ends, with or without an error
SendDone ==
    /\ pc = "select"
    /\ hpc = "send"
    /\ \E sent \in BOOLEAN :
        outbox' = Append(outbox, TextOut(serialize_result_message(pending[1]), sent))
    /\ pending' = <<>>
    /\ hpc' = "next"
    /\ UNCHANGED <<pc, session_id, edit_url, ws_stream, stdout, writing, file,
                   signalled, branch, loop_err, result, nrecv, last, nsaves,
                   writes, peer_closed, startup>>

\* ------------------------------------------------------------------------
\* run, from the race on
\* ------------------------------------------------------------------------
\* SelectInterrupt with the file write in flight cancelled with the future
SelectInterruptAbortsWrite ==
    /\ pc = "select"
    /\ signalled
    /\ hpc \in {"next", "write", "send"}
    /\ hpc' = "dropped"
    /\ pending' = <<>>
    /\ writing' = <<>>
    /\ branch' = "interrupt"
    /\ pc' = "close"
    /\ UNCHANGED <<session_id, edit_url, ws_stream, stdout, file, outbox,
                   signalled, loop_err, result, nrecv, last, nsaves, writes,
                   peer_closed, startup>>

\* rx.recv() completes while handle_messages is pending at an await: the
\* second arm of tokio::select! is taken and handle_messages is dropped
SelectInterrupt ==
    /\ pc = "select"
    /\ signalled
    /\ hpc \in {"next", "write", "send"}
    /\ hpc' = "dropped"
    /\ pending' = <<>>
    /\ branch' = "interrupt"
    /\ pc' = "close"
    /\ UNCHANGED <<session_id, edit_url, ws_stream, stdout, writing, file,
                   outbox, signalled, loop_err, result, nrecv, last, nsaves,
                   writes, peer_closed, startup>>

\* CloseArgs with the error code and reason used on every arm
CloseArgsGoingAway(b, e) == [code |-> GoingAway, reason |-> e]

\* the arguments of the client.close call that run makes after arm b
CloseArgs(b, e) ==
    IF b = "err"
    THEN [code |-> GoingAway, reason |-> e]
    ELSE [code |-> NormalClosure, reason |-> ""]

\* what run returns after arm b, given how client.close(..).await ended
RunResult(b, e, closed) ==
    IF ~closed THEN Err(CloseError)
    ELSE IF b = "err" THEN Err(e)
    ELSE Ok

\* Close with run returning the loop error before it calls client.close
CloseSkippedAfterError ==
    /\ pc = "close"
    /\ \E closed \in BOOLEAN :
        LET args == CloseArgs(branch, loop_err)
        IN  IF ws_stream = "Some" /\ branch # "err"
            THEN /\ outbox' = Append(outbox, CloseOut(args.code, args.reason, closed))
                 /\ result' = RunResult(branch, loop_err, closed)
            ELSE /\ outbox' = outbox
                 /\ result' = RunResult(branch, loop_err, TRUE)
    /\ pc' = "done"
    /\ UNCHANGED <<session_id, edit_url, ws_stream, stdout, hpc, writing,
                   pending, file, signalled, branch, loop_err, nrecv, last,
                   nsaves, writes, peer_closed, startup>>

\* Close with the message loop polled again after the close frame
CloseThenResume ==
    /\ pc = "close"
    /\ \E closed \in BOOLEAN :
        LET args == CloseArgs(branch, loop_err)
        IN  outbox' = Append(outbox, CloseOut(args.code, args.reason, closed))
    /\ pc' = "select"
    /\ hpc' = "next"
    /\ UNCHANGED <<session_id, edit_url, ws_stream, stdout, writing, pending,
                   file, signalled, branch, loop_err, nrecv, last, nsaves,
                   writes, peer_closed, startup, result>>

\* client.close(code, reason).await? and the return of run
Close ==
    /\ pc = "close"
    /\ \E closed \in BOOLEAN :
        LET args == CloseArgs(branch, loop_err)
        IN  IF ws_stream = "Some"
            THEN /\ outbox' = Append(outbox, CloseOut(args.code, args.reason, closed))
                 /\ result' = RunResult(branch, loop_err, closed)
            ELSE /\ outbox' = outbox
                 /\ result' = RunResult(branch, loop_err, TRUE)
    /\ pc' = "done"
    /\ UNCHANGED <<session_id, edit_url, ws_stream, stdout, hpc, writing,
                   pending, file, signalled, branch, loop_err, nrecv, last,
                   nsaves, writes, peer_closed, startup>>

Next ==
    \/ SelectServer
    \/ PostSession
    \/ CreateSession
    \/ Connect
    \/ CtrlC
    \/ RecvText
    \/ RecvClose
    \/ RecvControl
    \/ RecvError
    \/ RecvEnd
    \/ WriteDone
    \/ SendDone
    \/ SelectInterrupt
    \/ Close

Spec == Init /\ [][Next]_vars

\* server selection and negotiation, from every configuration
NextSelect ==
    \/ SelectServer
    \/ PostSession
    \/ CreateSession

SelectSpec == InitSelect /\ [][NextSelect]_vars

\* ------------------------------------------------------------------------
\* Properties
\* ------------------------------------------------------------------------
\* the close frames and the save_result frames passed to ws_stream.send
CloseFrames == SelectSeq(outbox, LAMBDA o : o.kind = "close")
ResultFrames == SelectSeq(outbox, LAMBDA o : o.kind = "text")

\* {"type":"save_result","success":true,"reason":"File saved successfully"}
SavedText ==
    <<"{",Q,"t","y","p","e",Q,":",Q,"s","a","v","e","_","r","e","s","u","l","t",Q,
      ",",Q,"s","u","c","c","e","s","s",Q,":","t","r","u","e",
      ",",Q,"r","e","a","s","o","n",Q,":",Q,
      "F","i","l","e"," ","s","a","v","e","d"," ",
      "s","u","c","c","e","s","s","f","u","l","l","y",Q,"}">>

\* {"type":"save_result","success":false,"reason":"Failed to save file"}
FailedText ==
    <<"{",Q,"t","y","p","e",Q,":",Q,"s","a","v","e","_","r","e","s","u","l","t",Q,
      ",",Q,"s","u","c","c","e","s","s",Q,":","f","a","l","s","e",
      ",",Q,"r","e","a","s","o","n",Q,":",Q,
      "F","a","i","l","e","d"," ","t","o"," ","s","a","v","e"," ",
      "f","i","l","e",Q,"}">>

\* C1: in a run in which connect succeeded, at no time has the client sent
\* more than one close frame, and when the run has ended it has sent
\* exactly one, whichever arm of the race was taken.
C1_ExactlyOneClose ==
    /\ Len(CloseFrames) <= 1
    /\ (pc = "done" /\ ws_stream = "Some") => Len(CloseFrames) = 1

\* a run that ended after an error of the message loop, one close frame sent
C1_Witness ==
    /\ pc = "done"
    /\ branch = "err"
    /\ Len(CloseFrames) = 1

\* C2: whenever the message loop is back at awaiting the next message, or
\* the run has ended, the number of save_result frames emitted equals the
\* number of save messages with a content payload that were received.
C2_OneResultPerSave ==
    (hpc = "next" \/ pc = "done") => Len(ResultFrames) = nsaves

\* C3: once a save message carrying the JSON encoding of C has been
\* processed, and its write did not fail, the content of the file is C.
C3_FileEqualsContent ==
    (hpc = "next" /\ last.kind = "save" /\ last.content.some
        /\ last.wrote # "failed")
        => file = last.content.val

\* C4: the k-th save_result is the success message if and only if the k-th
\* file write succeeded, and the failure message if and only if it failed.
C4_ResultMatchesWrite ==
    \A k \in 1..Len(ResultFrames) :
        /\ k <= Len(writes)
        /\ ResultFrames[k].text = SavedText <=> writes[k]
        /\ ResultFrames[k].text = FailedText <=> ~writes[k]

\* a save_result after a write that succeeded and one after a write that
\* failed
C4_Witness ==
    /\ Len(ResultFrames) = 2
    /\ writes = <<TRUE, FALSE>>
    /\ ResultFrames[2].text = FailedText

\* C5: once a malformed text frame has been read, the message loop has
\* ended with an error.
C5_MalformedEndsLoop ==
    last.kind = "malformed" => (hpc = "returned" /\ branch = "err")

\* C6: when the run ends after an error of the message loop, a close frame
\* with code 1001 and the error's text was sent, and run returns that error.
C6_LoopErrorPropagated ==
    (pc = "done" /\ branch = "err")
        => /\ Len(CloseFrames) = 1
           /\ CloseFrames[1].code = 1001
           /\ CloseFrames[1].reason = loop_err
           /\ result = Err(loop_err)

\* C7: when sending the close frame failed, run returns what was determined
\* before the close: the loop's error after a loop error, success otherwise.
C7_CloseBestEffort ==
    (pc = "done" /\ \E i \in 1..Len(CloseFrames) : ~CloseFrames[i].ok)
        => result = IF branch = "err" THEN Err(loop_err) ELSE Ok

\* C8: when the interrupt arm of the race was taken, the connection is
\* closed with code 1000 and an empty reason, and run returns success.
C8_InterruptClosesNormally ==
    (pc = "done" /\ branch = "interrupt")
        => /\ Len(CloseFrames) = 1
           /\ CloseFrames[1].code = 1000
           /\ CloseFrames[1].reason = ""
           /\ result = Ok

\* C9: once a close frame of the peer has been read, the message loop has
\* returned without an error and stays returned, and the one close frame
\* the client sends has code 1000 and an empty reason.
C9_PeerCloseEndsCleanly ==
    peer_closed
        => /\ hpc = "returned"
           /\ branch = "ok"
           /\ loop_err = ""
           /\ \A i \in 1..Len(CloseFrames) :
                CloseFrames[i].code = 1000 /\ CloseFrames[i].reason = ""
           /\ pc = "done" => Len(CloseFrames) = 1

\* a run that ended after the peer's close frame
C9_Witness ==
    /\ peer_closed
    /\ pc = "done"
    /\ Len(CloseFrames) = 1

\* C10: a step that reads a text message whose type is not save starts no
\* file write, leaves the file and the frames sent unchanged, and leaves
\* the message loop awaiting the next message.
C10_OtherTypeIgnored ==
    [][(nrecv' = nrecv + 1 /\ last' # last /\ last'.kind = "other")
        => /\ file' = file
           /\ writing' = <<>>
           /\ outbox' = outbox
           /\ hpc' = "next"
           /\ pc' = "select"]_vars


\* the errors Client::create_session returns after the request was sent
NegotiationErrors ==
    {RequestError, UnauthorizedError, StatusError, ContentTypeError,
     SessionFormatError}

C12_EditUrlPrintedOnce ==
    /\ Len(stdout) <= 1
    /\ ws_stream = "Some" => (stdout = <<edit_url.val>> /\ edit_url.some)
    /\ (nrecv > 0 \/ outbox # <<>> \/ branch # "none") => Len(stdout) = 1

\* a run that ended after a loop error and a failed close, the URL printed
\* once
C12_Witness ==
    /\ pc = "done"
    /\ branch = "err"
    /\ result = Err(CloseError)
    /\ Len(stdout) = 1

\* C13 as stated: when the connection attempt has failed, run has ended
\* with an error and the edit URL has been printed.
C13_UrlPrintedBeforeConnectFails ==
    (pc = "done" /\ nconnects = 1 /\ ws_stream = "None")
        => (result.state = "err" /\ Len(stdout) = 1)

\* C13 as amended: when the connection attempt has failed, run has ended
\* with the connect error and the edit URL has not been printed.
C13_UrlNotPrintedWhenConnectFails ==
    (pc = "done" /\ nconnects = 1 /\ ws_stream = "None")
        => (result = Err(ConnectError) /\ stdout = <<>>)

\* a run whose one connection attempt failed
C13_Witness ==
    /\ pc = "done"
    /\ nconnects = 1
    /\ ws_stream = "None"
    /\ result = Err(ConnectError)


\* the answer is a 2xx response of type application/json whose body carries
\* a non-empty sessionid and a non-empty editurl: of SessionBodies, only
\* FullBody has both fields
ValidResponse(resp) ==
    /\ resp.sent
    /\ resp.status_code >= 200 /\ resp.status_code < 300
    /\ resp.json_type
    /\ resp.body = FullBody

\* C14: create_session records a session id and an edit URL if and only if
\* the answer is a valid response; otherwise it returns an error, the auth
\* error when the status is 401, and leaves both unset.
C14_SessionIffValidResponse ==
    [][(http # <<>> /\ http' = <<>>)
        => /\ session_id'.some <=> ValidResponse(http[1])
           /\ edit_url'.some <=> ValidResponse(http[1])
           /\ ~ValidResponse(http[1])
                => /\ result'.state = "err"
                   /\ session_id' = None
                   /\ edit_url' = None
           /\ (http[1].sent /\ http[1].status_code = 401)
                => result'.err = UnauthorizedError]_vars


\* C15: once the selection is made, if the configured list has an entry
\* with an address, the server selected is an entry of the list and has an
\* address, and the run has not failed with a configuration error;
\* otherwise run has ended with a configuration error, no server was
\* selected and no negotiation request was made.
C15_ServerSelection ==
    pc # "select_server"
        => IF \E i \in 1..Len(servers) : servers[i].addr # <<>>
           THEN /\ \E i \in 1..Len(servers) : servers[i] = server
                /\ server.addr # <<>>
                /\ result.err \notin {NoServersError, NoValidServersError}
           ELSE /\ pc = "done"
                /\ result.state = "err"
                /\ result.err \in {NoServersError, NoValidServersError}
                /\ server = NoServer
                /\ nposts = 0
                /\ http = <<>>

\* the second of two different entries with an address was selected
C15_Witness ==
    /\ pc = "create_session"
    /\ Len(servers) = 2
    /\ servers[1].addr # <<>>
    /\ servers[2].addr # <<>>
    /\ servers[1] # servers[2]
    /\ server = servers[2]


C17_SequentialLastWriteWins ==
    /\ (pc = "select" /\ hpc = "next") => (writing = <<>> /\ pending = <<>>)
    /\ Len(ResultFrames) <= Len(writes)
    /\ \A k \in 1..Len(ResultFrames) :
            k <= Len(writes) => (ResultFrames[k].text = SavedText <=> writes[k])
    /\ (hpc = "next" /\ last.kind = "save" /\ last.content.some
            /\ last.wrote = "ok")
            => file = last.content.val

\* C18: a close frame is the last frame in outbox, and once it is there no
\* frame is sent, no inbound frame is read and the message loop does not
\* run.
C18_CloseIsLast ==
    [][/\ \A i \in 1..Len(outbox') :
            outbox'[i].kind = "close" => i = Len(outbox')
       /\ CloseFrames # <<>>
            => /\ outbox' = outbox
               /\ nrecv' = nrecv
               /\ hpc' = hpc
               /\ pc' = "done"]_vars

\* a run that ended with a save_result and then a close frame sent
C18_Witness ==
    /\ pc = "done"
    /\ Len(outbox) = 2
    /\ outbox[1].kind = "text"
    /\ outbox[2].kind = "close"

\* C19: when a file write fails under the message loop, the loop goes on
\* to send the failure save_result, run has not ended and no error is
\* returned; and when that save_result has been passed to send, the loop
\* awaits the next message.
C19_WriteFailureNotFatal ==
    [][/\ (hpc = "write" /\ writing # <<>> /\ writing' = <<>>
            /\ ~writes'[Len(writes')])
            => /\ hpc' = "send"
               /\ pending'[1].success = FALSE
               /\ pc' = "select"
               /\ branch' = "none"
               /\ result' = Running
       /\ (hpc = "send" /\ ~pending[1].success /\ outbox' # outbox)
            => /\ outbox'[Len(outbox')].text = FailedText
               /\ hpc' = "next"
               /\ pc' = "select"
               /\ branch' = "none"
               /\ result' = Running]_vars

\* a write that failed, then a later save written successfully
C19_Witness ==
    /\ writes = <<FALSE, TRUE>>
    /\ Len(ResultFrames) = 2
    /\ hpc = "next"
    /\ pc = "select"

\* C20: a step in which the send of a save_result fails leaves the message
\* loop awaiting the next message, run not ended, no error returned, and
\* the file and the record of writes as they were.
C20_SendFailureNotFatal ==
    [][(hpc = "send" /\ Len(outbox') = Len(outbox) + 1
            /\ ~outbox'[Len(outbox')].ok)
        => /\ hpc' = "next"
           /\ pc' = "select"
           /\ branch' = "none"
           /\ result' = Running
           /\ file' = file
           /\ writes' = writes]_vars

\* a save_result whose send failed, then a later save acknowledged
C20_Witness ==
    /\ Len(ResultFrames) = 2
    /\ ~ResultFrames[1].ok
    /\ ResultFrames[1].text = SavedText
    /\ file = <<"n">>


\* C21: connect_async is called at most once in a run; the step that calls
\* it is taken when create_session has returned Ok (one POST, a session id
\* recorded, run not ended), and the URL it connects to is that of the
\* selected server and ends in that session id; a connection exists only
\* when the call was made; and once the call was made, whether it failed or
\* the connection has since ended, no other call follows and the
\* connection and its URL stay as they are.
C21_SingleConnection ==
    [][/\ nconnects' <= 1
       /\ nconnects' # nconnects
            => /\ pc = "connect"
               /\ nconnects = 0
               /\ nposts = 1
               /\ http = <<>>
               /\ session_id.some
               /\ result = Running
               /\ pc' # "connect"
               /\ ws_url'.some
               /\ LET u == ws_url'.val
                      id == session_id.val
                  IN  /\ Len(id) > 0
                      /\ SubSeq(u, 7, 6 + Len(server.addr)) = server.addr
                      /\ SubSeq(u, Len(u) - Len(id) + 1, Len(u)) = id
       /\ ws_stream' = "Some" => nconnects' = 1
       /\ nconnects = 1
            => /\ nconnects' = 1
               /\ ws_stream' = ws_stream
               /\ ws_url' = ws_url
               /\ session_id' = session_id
               /\ pc' # "connect"]_vars

\* a run that connected once, whose connection the peer then closed, and
\* that has ended
C21_Witness ==
    /\ pc = "done"
    /\ nconnects = 1
    /\ ws_stream = "Some"
    /\ peer_closed
    /\ ws_url.some


\* C22: a step that reads a text message of type save that has no content
\* field, or whose content is not a string, starts no file write, leaves
\* the file and the frames sent unchanged, and leaves the message loop
\* awaiting the next message with run not ended and no error.
C22_SaveWithoutContentIgnored ==
    [][(nrecv' = nrecv + 1 /\ last' # last /\ last'.kind = "save"
            /\ ~last'.content.some)
        => /\ file' = file
           /\ writing' = <<>>
           /\ outbox' = outbox
           /\ hpc' = "next"
           /\ pc' = "select"
           /\ branch' = "none"
           /\ result' = Running]_vars

====
